---------------------------- MODULE Spec2Model ----------------------------
(***************************************************************************)
(* Model of go-ipfs-redirects-file: the _redirects parser (Parse,          *)
(* ParseString and their helpers) and the rule matcher                     *)
(* (Rule.MatchAndExpandPlaceholders, matchParams, replacePlaceholders).    *)
(*                                                                         *)
(* A Go string is a sequence of one-character strings.  A Go error is a    *)
(* string naming its kind, "nil" when there is none.  A runtime panic is   *)
(* an outcome of its own, never an error value.                            *)
(***************************************************************************)
EXTENDS Integers, Sequences, FiniteSets, TLC

VARIABLES reader, rules, err, outcome, r, ok, call

parseVars == <<reader, rules, err, outcome>>
matchVars == <<r, ok, call>>
vars == <<reader, rules, err, outcome, r, ok, call>>

---------------------------------------------------------------------------
(* The package strings, on sequences of characters.                        *)

Digits == {"0", "1", "2", "3", "4", "5", "6", "7", "8", "9"}

Letters == {"a", "b", "c", "d", "e", "f", "h", "i", "k", "l", "m", "n",
            "p", "q", "s", "t", "v", "x"}

HexDigits == Digits \cup {"a", "b", "c", "d", "e", "f"}

DigitVal(c) ==
    CASE c = "0" -> 0 [] c = "1" -> 1 [] c = "2" -> 2 [] c = "3" -> 3
      [] c = "4" -> 4 [] c = "5" -> 5 [] c = "6" -> 6 [] c = "7" -> 7
      [] c = "8" -> 8 [] c = "9" -> 9

HasPrefix(s, p) == Len(s) >= Len(p) /\ SubSeq(s, 1, Len(p)) = p

HasSuffix(s, p) ==
    Len(s) >= Len(p) /\ SubSeq(s, Len(s) - Len(p) + 1, Len(s)) = p

Count(s, c) == Cardinality({i \in 1..Len(s) : s[i] = c})

Drop(s, n) == SubSeq(s, n + 1, Len(s))

\* strings.Index: the first position at which p occurs in s, 0 when none.
Index(s, p) ==
    LET hits == {i \in 1..(Len(s) - Len(p) + 1) : SubSeq(s, i, i + Len(p) - 1) = p}
    IN  IF hits = {} THEN 0 ELSE CHOOSE i \in hits : \A j \in hits : i <= j

Contains(s, p) == Index(s, p) # 0

TrimSuffix(s, p) == IF HasSuffix(s, p) THEN SubSeq(s, 1, Len(s) - Len(p)) ELSE s

\* strings.ReplaceAll for a non-empty old: non-overlapping, left to right.
RECURSIVE ReplaceAll(_, _, _)
ReplaceAll(s, old, new) ==
    LET i == Index(s, old)
    IN  IF i = 0 THEN s
        ELSE SubSeq(s, 1, i - 1) \o new \o ReplaceAll(Drop(s, i + Len(old) - 1), old, new)

\* strings.Split(s, sep) for a one-character sep: always at least one piece.
RECURSIVE Split(_, _)
Split(s, sep) ==
    LET i == Index(s, <<sep>>)
    IN  IF i = 0 THEN <<s>>
        ELSE <<SubSeq(s, 1, i - 1)>> \o Split(Drop(s, i), sep)

\* strings.TrimSpace, the only white space of a line being the space.
RECURSIVE TrimLeft(_)
TrimLeft(s) == IF s # <<>> /\ s[1] = " " THEN TrimLeft(Tail(s)) ELSE s

RECURSIVE TrimRight(_)
TrimRight(s) ==
    IF s # <<>> /\ s[Len(s)] = " " THEN TrimRight(SubSeq(s, 1, Len(s) - 1)) ELSE s

TrimSpace(s) == TrimRight(TrimLeft(s))

\* strings.Fields: the maximal runs of non-space characters.
RECURSIVE Fields(_)
Fields(s) ==
    LET t == TrimLeft(s)
        i == Index(t, <<" ">>)
    IN  IF t = <<>> THEN <<>>
        ELSE IF i = 0 THEN <<t>>
        ELSE <<SubSeq(t, 1, i - 1)>> \o Fields(Drop(t, i))

\* strconv.Atoi on a string of decimal digits; an error on anything else.
RECURSIVE AtoiVal(_)
AtoiVal(s) ==
    IF s = <<>> THEN 0 ELSE 10 * AtoiVal(SubSeq(s, 1, Len(s) - 1)) + DigitVal(s[Len(s)])

Atoi(s) ==
    IF s # <<>> /\ \A i \in 1..Len(s) : s[i] \in Digits
    THEN [code |-> AtoiVal(s), err |-> "nil"]
    ELSE [code |-> 0, err |-> "strconv.Atoi: invalid syntax"]

---------------------------------------------------------------------------
(* The package net/url, on the strings the model draws: characters are     *)
(* letters, digits and / * : = & ! % # ; no string holds a valid           *)
(* percent-escape, so unescaping leaves every accepted string as it is.    *)

\* A '%' that is not followed by two hexadecimal digits.
InvalidEscape(s) ==
    \E i \in 1..Len(s) :
        /\ s[i] = "%"
        /\ ~(i + 2 <= Len(s) /\ s[i + 1] \in HexDigits /\ s[i + 2] \in HexDigits)

\* url.getScheme: [scheme, rest, err].
GetScheme(s) ==
    LET stop == {i \in 1..Len(s) : s[i] \notin Letters}
        i == IF stop = {} THEN 0 ELSE CHOOSE k \in stop : \A j \in stop : k <= j
    IN  IF i = 0 THEN [scheme |-> <<>>, rest |-> s, err |-> "nil"]
        ELSE IF s[i] = ":"
             THEN IF i = 1
                  THEN [scheme |-> <<>>, rest |-> <<>>, err |-> "missing protocol scheme"]
                  ELSE [scheme |-> SubSeq(s, 1, i - 1), rest |-> Drop(s, i), err |-> "nil"]
        ELSE IF s[i] \in Digits /\ i > 1
             THEN LET more == {k \in i..Len(s) : s[k] \notin (Letters \cup Digits)}
                      k == IF more = {} THEN 0
                           ELSE CHOOSE a \in more : \A b \in more : a <= b
                  IN  IF k # 0 /\ s[k] = ":"
                      THEN [scheme |-> SubSeq(s, 1, k - 1), rest |-> Drop(s, k), err |-> "nil"]
                      ELSE [scheme |-> <<>>, rest |-> s, err |-> "nil"]
        ELSE [scheme |-> <<>>, rest |-> s, err |-> "nil"]

\* url.Parse: [scheme, host, err].  The fragment is cut at the first '#'.
UrlParse(s) ==
    LET h == Index(s, <<"#">>)
        u == IF h = 0 THEN s ELSE SubSeq(s, 1, h - 1)
        g == GetScheme(u)
        rest == g.rest
        auth == IF HasPrefix(rest, <<"/", "/">>) /\ ~HasPrefix(rest, <<"/", "/", "/">>)
                THEN Split(Drop(rest, 2), "/")[1] ELSE <<>>
        colon == Index(auth, <<":">>)
        port == IF colon = 0 THEN <<>> ELSE Drop(auth, colon)
        bad(e) == [scheme |-> <<>>, host |-> <<>>, err |-> e]
    IN  IF InvalidEscape(s) THEN bad("invalid URL escape")
        ELSE IF g.err # "nil" THEN bad(g.err)
        ELSE IF g.scheme = <<>> /\ ~HasPrefix(rest, <<"/">>) /\ Contains(Split(rest, "/")[1], <<":">>)
             THEN bad("first path segment in URL cannot contain colon")
        ELSE IF g.scheme # <<>> /\ ~HasPrefix(rest, <<"/">>)
             THEN [scheme |-> g.scheme, host |-> <<>>, err |-> "nil"]
        ELSE IF colon # 0 /\ \E i \in 1..Len(port) : port[i] \notin Digits
             THEN bad("invalid port")
        ELSE [scheme |-> g.scheme,
              host |-> IF colon = 0 THEN auth ELSE SubSeq(auth, 1, colon - 1),
              err |-> "nil"]

\* url.QueryEscape(s) = s: every character is a letter, a digit or one of - _ . ~
QueryEscapeSame(s) == \A i \in 1..Len(s) : s[i] \in (Letters \cup Digits)

\* url.ParseQuery: [keys (in order of first occurrence), vals (key -> values), err].
RECURSIVE ParseQueryParts(_, _, _)
ParseQueryParts(parts, keys, vals) ==
    IF parts = <<>> THEN [keys |-> keys, vals |-> vals]
    ELSE LET p == Head(parts)
             e == Index(p, <<"=">>)
             k == IF e = 0 THEN p ELSE SubSeq(p, 1, e - 1)
             v == IF e = 0 THEN <<>> ELSE Drop(p, e)
         IN  IF p = <<>> \/ InvalidEscape(k) \/ InvalidEscape(v)
             THEN ParseQueryParts(Tail(parts), keys, vals)
             ELSE IF \E i \in 1..Len(keys) : keys[i] = k
                  THEN ParseQueryParts(Tail(parts), keys,
                           [x \in DOMAIN vals |-> IF x = k THEN Append(vals[x], v) ELSE vals[x]])
                  ELSE ParseQueryParts(Tail(parts), Append(keys, k),
                           [x \in DOMAIN vals \cup {k} |-> IF x = k THEN <<v>> ELSE vals[x]])

ParseQuery(s) ==
    LET parts == Split(s, "&")
        res == ParseQueryParts(parts, <<>>, <<>>)
    IN  [keys |-> res.keys, vals |-> res.vals,
         err |-> IF \E i \in 1..Len(parts) :
                        parts[i] # <<>> /\ InvalidEscape(parts[i])
                 THEN "invalid URL escape" ELSE "nil"]

---------------------------------------------------------------------------
(* The parser's helpers.                                                   *)

MaxFileSizeInBytes == 65536

isPlaceholder(s) == HasPrefix(s, <<":">>)

\* case 200, 301, 302, 303, 307, 308, 404, 410, 451
ValidStatusCodes == {200, 301, 302, 303, 307, 308, 404, 410, 451}

\* A status check that would let every number through.
isValidStatusCodeAny(status) == TRUE

isValidStatusCode(status) == status \in ValidStatusCodes

\* likeStatusCode = ^\d{1,3}!?$
isLikelyStatusCode(s) ==
    LET d == TrimSuffix(s, <<"!">>)
    IN  Len(d) \in 1..3 /\ \A i \in 1..Len(d) : d[i] \in Digits

parseStatus(s) ==
    IF HasSuffix(s, <<"!">>)
    THEN [code |-> 0, err |-> "forced redirects are not supported"]
    ELSE LET a == Atoi(s)
         IN  IF a.err # "nil" THEN [code |-> 0, err |-> a.err]
             ELSE IF ~isValidStatusCode(a.code)
                  THEN [code |-> 0, err |-> "status code is not supported"]
             ELSE [code |-> a.code, err |-> "nil"]

\* A parseFrom that would not count the asterisks.
parseFromUncounted(s, u) ==
    IF Count(s, "*") > 0 /\ ~HasSuffix(s, <<"*">>)
    THEN [from |-> <<>>, err |-> "path must end with asterisk"]
    ELSE IF u.err # "nil" THEN [from |-> <<>>, err |-> u.err]
    ELSE IF ~HasPrefix(s, <<"/">>)
         THEN [from |-> <<>>, err |-> "path must begin with '/'"]
    ELSE [from |-> s, err |-> "nil"]

\* parseFrom once u, err := url.Parse(s) is known.
parseFromParsed(s, u) ==
    IF Count(s, "*") > 0 /\ ~HasSuffix(s, <<"*">>)
    THEN [from |-> <<>>, err |-> "path must end with asterisk"]
    ELSE IF Count(s, "*") > 1
         THEN [from |-> <<>>, err |-> "path can have at most one asterisk"]
    ELSE IF u.err # "nil" THEN [from |-> <<>>, err |-> u.err]
    ELSE IF ~HasPrefix(s, <<"/">>)
         THEN [from |-> <<>>, err |-> "path must begin with '/'"]
    ELSE [from |-> s, err |-> "nil"]

parseFrom(s) == parseFromParsed(s, UrlParse(s))

SafelistedSchemes ==
    {<<"h", "t", "t", "p">>, <<"h", "t", "t", "p", "s">>,
     <<"i", "p", "f", "s">>, <<"i", "p", "n", "s">>}

\* parseTo once u, err := url.Parse(s) is known.
parseToParsed(s, u) ==
    IF u.err # "nil" THEN [to |-> <<>>, err |-> u.err]
    ELSE IF ~HasPrefix(s, <<"/">>) /\ u.scheme \notin SafelistedSchemes
         THEN [to |-> <<>>, err |-> "invalid URL scheme"]
    ELSE [to |-> s, err |-> "nil"]

parseTo(s) == parseToParsed(s, UrlParse(s))

\* parseFromQuery once params, err := url.ParseQuery(s) is known.
parseFromQueryParsed(params) ==
    LET bad(e) == [key |-> <<>>, value |-> <<>>, err |-> e]
        key == params.keys[1]
        val == params.vals[key]
        ignorePlaceholders == IF isPlaceholder(val[1]) THEN Tail(val[1]) ELSE val[1]
    IN  IF params.err # "nil" THEN bad(params.err)
        ELSE IF Len(params.keys) # 1
             THEN bad("separate different fromQuery arguments with a space")
        ELSE IF ~QueryEscapeSame(key) THEN bad("fromQuery key must be URL encoded")
        ELSE IF Len(val) > 1
             THEN bad("separate different fromQuery arguments with a space")
        ELSE IF ~QueryEscapeSame(ignorePlaceholders)
             THEN bad("fromQuery val must be URL encoded")
        ELSE [key |-> key, value |-> val[1], err |-> "nil"]

parseFromQuery(s) == parseFromQueryParsed(ParseQuery(s))

\* contains(arr, s)
contains(arr, s) == \E i \in 1..Len(arr) : arr[i] = s

\* A Go map as a function; the nil map is the function of empty domain.
NilMap == <<>>

MapSet(m, k, v) == [x \in DOMAIN m \cup {k} |-> IF x = k THEN v ELSE m[x]]

\* fields[i] of the code, i counted from 0.
InRange(fields, i) == 0 <= i /\ i < Len(fields)

At(fields, i) == fields[i + 1]

\* The loop `for i := 1; i < toIndex; i++` that fills rule.FromQuery; q is what
\* parseFromQuery(fields[i]) gave.
RECURSIVE FromQueryLoop(_, _, _, _)
FromQueryStep(fields, i, toIndex, m, q) ==
    IF q.err # "nil" THEN [map |-> NilMap, err |-> "parsing 'fromQuery'"]
    ELSE FromQueryLoop(fields, i + 1, toIndex, MapSet(m, q.key, q.value))

FromQueryLoop(fields, i, toIndex, m) ==
    IF i >= toIndex THEN [map |-> m, err |-> "nil"]
    ELSE FromQueryStep(fields, i, toIndex, m, parseFromQuery(At(fields, i)))

\* What the wrapped status error formats: fields[2], whatever len(fields) is.
StatusErrorArg == 2

LineFails(e) == [kind |-> "error", err |-> e]

\* errors.Wrapf(err, "parsing status %q", fields[2]): the index is evaluated
\* before the error is built.
StatusError(fields, st) ==
    IF InRange(fields, StatusErrorArg)
    THEN LineFails(st.err)
    ELSE [kind |-> "panic"]

\* The body of Parse's loop from `rule := Rule{Status: 301}` on, the results of
\* parseFrom, parseTo, parseStatus and of the fromQuery loop being given.
BuildRule(fields, hasStatus, toIndex, from, to, st, fq) ==
    IF from.err # "nil" THEN LineFails("parsing 'from'")
    ELSE IF to.err # "nil" THEN LineFails("parsing 'to'")
    ELSE IF hasStatus /\ st.err # "nil" THEN StatusError(fields, st)
    ELSE IF toIndex > 1 /\ fq.err # "nil" THEN LineFails(fq.err)
    ELSE [kind |-> "rule",
          rule |-> [From |-> from.from,
                    FromQuery |-> IF toIndex > 1 THEN fq.map ELSE NilMap,
                    To |-> to.to,
                    Status |-> IF hasStatus THEN st.code ELSE 301]]

\* hasStatus := isLikelyStatusCode(fields[len(fields)-1])
HasStatus(fields) == isLikelyStatusCode(At(fields, Len(fields) - 1))

\* A destination that would always be the second field.
ToIndexSecond(fields) == 1

\* toIndex := len(fields) - 1; if hasStatus { toIndex = len(fields) - 2 }
ToIndex(fields) == IF HasStatus(fields) THEN Len(fields) - 2 ELSE Len(fields) - 1

\* The body of Parse's loop from `fields := strings.Fields(line)` on.
ParseFields(fields) ==
    IF Len(fields) <= 1 THEN LineFails("missing 'to' path")
    ELSE BuildRule(fields, HasStatus(fields), ToIndex(fields),
                   parseFrom(At(fields, 0)),
                   parseTo(At(fields, ToIndex(fields))),
                   parseStatus(At(fields, Len(fields) - 1)),
                   FromQueryLoop(fields, 1, ToIndex(fields), NilMap))

\* The body of Parse's loop on the trimmed line.
ParseTrimmed(line) ==
    IF line = <<>> THEN [kind |-> "skip"]
    ELSE IF HasPrefix(line, <<"#">>) THEN [kind |-> "skip"]
    ELSE ParseFields(Fields(line))

\* One iteration of Parse's loop on a scanned line: the line is skipped, gives a
\* rule, ends the parse with an error, or faults.
ParseLine(text) == ParseTrimmed(TrimSpace(text))

---------------------------------------------------------------------------
(* The reader Parse is given and the bufio.Scanner it builds on it.  A     *)
(* reader holds lines, each ended by a newline; pad spaces trail the last  *)
(* line before its newline; a failing reader answers a read error, not    *)
(* io.EOF, once its bytes are out.                                         *)

\* bufio.startBufSize and bufio.MaxScanTokenSize, the scanner's defaults.
startBufSize == 4096

MaxScanTokenSize == 65536

NumLines(rd) == Len(rd.lines)

\* The bytes of line i, its newline not counted.
LineBytes(rd, i) == Len(rd.lines[i]) + (IF i = NumLines(rd) THEN rd.pad ELSE 0)

\* The offset of the first byte after the first k lines.
RECURSIVE Off(_, _)
Off(rd, k) == IF k = 0 THEN 0 ELSE Off(rd, k - 1) + LineBytes(rd, k) + 1

TotalBytes(rd) == Off(rd, NumLines(rd))

Min(a, b) == IF a <= b THEN a ELSE b

\* limiter := &io.LimitedReader{R: r, N: MaxFileSizeInBytes + 1}
LimiterStart == MaxFileSizeInBytes + 1

\* limiter.N once `read` bytes went through the limiter.
LimiterN(read) == LimiterStart - read

\* A scanner before its first Scan: k tokens delivered, the buffer buf[start:end]
\* of capacity cap, read bytes taken from the limiter, serr the sticky error.
NewScanner == [k |-> 0, start |-> 0, end |-> 0, cap |-> 0, read |-> 0, serr |-> "nil"]

\* io.LimitedReader.Read into a slice of `room` bytes: [n, err].
LimitedRead(rd, read, room) ==
    IF LimiterN(read) <= 0 THEN [n |-> 0, err |-> "EOF"]
    ELSE IF TotalBytes(rd) - read = 0
         THEN [n |-> 0, err |-> IF rd.fails THEN "read error" ELSE "EOF"]
    ELSE [n |-> Min(Min(room, LimiterN(read)), TotalBytes(rd) - read), err |-> "nil"]

\* One call of Scanner.Scan with the split function ScanLines: [tok, sc].
RECURSIVE Scan(_, _)
Scan(rd, sc) ==
    LET atEOF == sc.serr # "nil"
        hasLine == /\ sc.k < NumLines(rd)
                   /\ Off(rd, sc.k) + LineBytes(rd, sc.k + 1) < sc.read
        shift == sc.start > 0 /\ (sc.end = sc.cap \/ sc.start > sc.cap \div 2)
        s1 == IF shift THEN [sc EXCEPT !.end = sc.end - sc.start, !.start = 0] ELSE sc
        newSize == IF s1.cap * 2 = 0 THEN startBufSize ELSE Min(s1.cap * 2, MaxScanTokenSize)
        s2 == IF s1.end = s1.cap
              THEN [s1 EXCEPT !.cap = newSize, !.end = s1.end - s1.start, !.start = 0]
              ELSE s1
        rr == LimitedRead(rd, s2.read, s2.cap - s2.end)
        s3 == [s2 EXCEPT !.end = s2.end + rr.n, !.read = s2.read + rr.n,
                         !.serr = IF rr.err # "nil" THEN rr.err ELSE s2.serr]
    IN  IF (sc.end > sc.start \/ atEOF) /\ hasLine
        THEN [tok |-> TRUE,
              sc |-> [sc EXCEPT !.k = sc.k + 1,
                                !.start = sc.start + LineBytes(rd, sc.k + 1) + 1]]
        ELSE IF atEOF /\ sc.end > sc.start
        THEN [tok |-> TRUE, sc |-> [sc EXCEPT !.k = sc.k + 1, !.start = sc.end]]
        ELSE IF atEOF
        THEN [tok |-> FALSE, sc |-> [sc EXCEPT !.start = 0, !.end = 0]]
        ELSE IF s1.end = s1.cap /\ s1.cap >= MaxScanTokenSize
        THEN [tok |-> FALSE, sc |-> [s1 EXCEPT !.serr = "bufio.Scanner: token too long"]]
        ELSE Scan(rd, s3)

\* Scanner.Err: io.EOF is no error.
ScannerErr(sc) == IF sc.serr = "EOF" THEN "nil" ELSE sc.serr

\* What Parse returns: the rules and the error, or a runtime panic.
Returned(rs, e) == [outcome |-> "returned", rules |-> rs, err |-> e]

Panicked == [outcome |-> "panic", rules |-> <<>>, err |-> "nil"]

\* if limiter.N <= 0 { return nil, fmt.Errorf("redirects file size cannot exceed ...") }
SizeExceeded(sc) == LimiterN(sc.read) <= 0

\* A failed line that would hand back the rules accepted before it.
LineErrorPartial(rs, e) == Returned(rs, e)

\* A failed line: return nil, <the wrapped error>.
LineError(rs, e) == Returned(<<>>, e)

\* After the loop: err = s.Err(); if err != nil { return nil, err }; return rules, nil
ScanEnd(rs, e) == IF e # "nil" THEN Returned(<<>>, e) ELSE Returned(rs, "nil")

\* Parse's loop `for s.Scan() { ... }` from scanner state sc with rs the rules so
\* far: sn is what s.Scan() gave, pl what the loop's body made of the line.
RECURSIVE ParseLoop(_, _, _)
AfterLine(rd, sc, rs, pl) ==
    IF pl.kind = "skip" THEN ParseLoop(rd, sc, rs)
    ELSE IF pl.kind = "error" THEN LineError(rs, pl.err)
    ELSE IF pl.kind = "panic" THEN Panicked
    ELSE ParseLoop(rd, sc, Append(rs, pl.rule))

AfterScan(rd, rs, sn) ==
    IF ~sn.tok THEN ScanEnd(rs, ScannerErr(sn.sc))
    ELSE IF SizeExceeded(sn.sc)
         THEN Returned(<<>>, "redirects file size cannot exceed")
    ELSE AfterLine(rd, sn.sc, rs, ParseLine(rd.lines[sn.sc.k]))

ParseLoop(rd, sc, rs) == AfterScan(rd, rs, Scan(rd, sc))

ParseReader(rd) == ParseLoop(rd, NewScanner, <<>>)

---------------------------------------------------------------------------
(* The inputs Parse is run on.                                             *)

MaxFields == 3

MaxLines == 2

SizeOver == 1

\* Fields drawn for every position of a line, whatever role the parser gives them.
FieldPool ==
    { <<"/", "a">>,               \* a path
      <<"/", "*">>,               \* a splat
      <<"/", "*", "a">>,          \* an asterisk before the end
      <<"/", "*", "*">>,          \* two asterisks
      <<"/", "b", "!">>,          \* a path ending in '!'
      <<"k", "=", ":", "v">>,     \* a query constraint binding v
      <<"3", "0", "1">>, <<"2", "0", "0">>, <<"4", "2">>,
      <<"3", "0", "1", "!">>, <<"4", "2", "!">> }

RECURSIVE Join(_)
Join(fields) ==
    IF fields = <<>> THEN <<>>
    ELSE IF Len(fields) = 1 THEN fields[1]
    ELSE fields[1] \o <<" ">> \o Join(Tail(fields))

PoolLines ==
    {Join(fs) : fs \in UNION {[1..n -> FieldPool] : n \in 0..MaxFields}}

UrlSplat == <<"h", "t", "t", "p", ":", "/", "/", "h", "/", ":", "s", "p", "l", "a", "t">>

\* Whole lines, for the inputs of several lines.
SampleLines ==
    { <<>>,                                                         \* blank
      <<"#", "c", " ", "/", "a">>,                                  \* a comment
      <<" ", "/", "a", " ", " ", "/", "b", "!", " ">>,              \* /a /b!
      Join(<<(<<"/", "*">>), UrlSplat, (<<"2", "0", "0">>)>>),      \* /* http://h/:splat 200
      <<"/", "a">>,                                                 \* no destination
      <<"/", "a", " ", "f", "t", "p", ":", "/", "/", "h">>,         \* /a ftp://h
      <<"/", "%", " ", "/", "a">>,                                  \* /% /a
      <<"/", "a", " ", "/", "a", " ", "4", "2">>,                   \* /a /a 42
      <<"/", "a", " ", "/", "a", " ", "3", "0", "1", "!">>,         \* /a /a 301!
      <<"/", "a", " ", "4", "2">>,                                  \* /a 42
      <<"/", "a", " ", "k", "&", "x", " ", "/", "a">> }             \* /a k&x /a

SampleTexts == UNION {[1..n -> SampleLines] : n \in 0..MaxLines}

RECURSIVE NaturalBytes(_)
NaturalBytes(lines) ==
    IF lines = <<>> THEN 0 ELSE Len(Head(lines)) + 1 + NaturalBytes(Tail(lines))

\* Paddings of the last line: none, and those that bring the input to
\* MaxFileSizeInBytes bytes and up to SizeOver bytes more.
Pads(lines) ==
    IF lines = <<>> THEN {0}
    ELSE {0} \cup {MaxFileSizeInBytes + d - NaturalBytes(lines) : d \in 0..SizeOver}

\* strings.NewReader(s): a reader that never fails.
NewReader(lines, pad) == [lines |-> lines, pad |-> pad, fails |-> FALSE]

Strings ==
    {NewReader(<<l>>, 0) : l \in PoolLines}
        \cup UNION {{NewReader(t, p) : p \in Pads(t)} : t \in SampleTexts}

\* Readers whose source fails after its last byte.
FailingReaders == {[lines |-> t, pad |-> 0, fails |-> TRUE] : t \in SampleTexts}

---------------------------------------------------------------------------
(* The matcher.  urlpath.New and Path.Match are the library the code calls *)
(* on rule.From; a Go map is visited in an order the language leaves open, *)
(* so every order is a possible one.                                       *)

\* urlpath.New(path): the segments between slashes, a last "*" making the path
\* trailing instead of being a segment.
PathSegment(seg) ==
    IF HasPrefix(seg, <<":">>) THEN [IsParam |-> TRUE, Param |-> Tail(seg), Const |-> <<>>]
    ELSE [IsParam |-> FALSE, Param |-> <<>>, Const |-> seg]

PathOf(inSegments) ==
    [Segments |-> [i \in 1..(IF inSegments[Len(inSegments)] = <<"*">>
                              THEN Len(inSegments) - 1 ELSE Len(inSegments))
                      |-> PathSegment(inSegments[i])],
     Trailing |-> inSegments[Len(inSegments)] = <<"*">>]

PathNew(path) == PathOf(Split(path, "/"))

NoMatch == [ok |-> FALSE, Params |-> NilMap, Trailing |-> <<>>]

\* Path.Match(s), from segment idx on, params being bound so far: i is the
\* position of the first slash of s, 0 when it has none.
RECURSIVE PathMatchFrom(_, _, _, _)
\* A match that would keep the first value captured under a name.
PathMatchSegmentFirst(p, idx, s, params, i) ==
    IF i = 0 /\ (idx # Len(p.Segments) \/ p.Trailing) THEN NoMatch
    ELSE IF i # 0 /\ idx = Len(p.Segments) /\ ~p.Trailing THEN NoMatch
    ELSE IF p.Segments[idx].IsParam
         THEN PathMatchFrom(p, idx + 1, IF i = 0 THEN <<>> ELSE Drop(s, i),
                  IF p.Segments[idx].Param \in DOMAIN params THEN params
                  ELSE MapSet(params, p.Segments[idx].Param,
                              IF i = 0 THEN s ELSE SubSeq(s, 1, i - 1)))
    ELSE IF (IF i = 0 THEN s ELSE SubSeq(s, 1, i - 1)) # p.Segments[idx].Const THEN NoMatch
    ELSE PathMatchFrom(p, idx + 1, IF i = 0 THEN <<>> ELSE Drop(s, i), params)

PathMatchSegment(p, idx, s, params, i) ==
    IF i = 0 /\ (idx # Len(p.Segments) \/ p.Trailing) THEN NoMatch
    ELSE IF i # 0 /\ idx = Len(p.Segments) /\ ~p.Trailing THEN NoMatch
    ELSE IF p.Segments[idx].IsParam
         THEN PathMatchFrom(p, idx + 1, IF i = 0 THEN <<>> ELSE Drop(s, i),
                  MapSet(params, p.Segments[idx].Param,
                         IF i = 0 THEN s ELSE SubSeq(s, 1, i - 1)))
    ELSE IF (IF i = 0 THEN s ELSE SubSeq(s, 1, i - 1)) # p.Segments[idx].Const THEN NoMatch
    ELSE PathMatchFrom(p, idx + 1, IF i = 0 THEN <<>> ELSE Drop(s, i), params)

PathMatchFrom(p, idx, s, params) ==
    IF idx > Len(p.Segments) THEN [ok |-> TRUE, Params |-> params, Trailing |-> s]
    ELSE PathMatchSegment(p, idx, s, params, Index(s, <<"/">>))

PathMatch(p, s) == PathMatchFrom(p, 1, s, NilMap)

\* The orders in which a map of keys S may be visited.
Orders(S) ==
    {o \in [1..Cardinality(S) -> S] : \A i, j \in 1..Cardinality(S) : i # j => o[i] # o[j]}

\* A matchParams that would bind a placeholder again whatever bound it before.
RECURSIVE matchParamsRebind(_, _, _, _)
matchParamsRebind(fromQuery, urlParams, placeholders, order) ==
    IF order = <<>> THEN [res |-> "true", placeholders |-> placeholders]
    ELSE IF Head(order) \notin DOMAIN urlParams
         THEN [res |-> "false", placeholders |-> placeholders]
    ELSE IF isPlaceholder(fromQuery[Head(order)])
         THEN IF urlParams[Head(order)] = <<>>
              THEN [res |-> "panic", placeholders |-> placeholders]
              ELSE matchParamsRebind(fromQuery, urlParams,
                       MapSet(placeholders, Tail(fromQuery[Head(order)]),
                              urlParams[Head(order)][1]),
                       Tail(order))
    ELSE IF ~contains(urlParams[Head(order)], fromQuery[Head(order)])
         THEN [res |-> "false", placeholders |-> placeholders]
    ELSE matchParamsRebind(fromQuery, urlParams, placeholders, Tail(order))

\* matchParams, fromQuery being visited in `order`: "true", "false", or "panic"
\* when haveVs[0] is read of an empty haveVs; with the placeholders as bound.
RECURSIVE matchParams(_, _, _, _)
matchParams(fromQuery, urlParams, placeholders, order) ==
    IF order = <<>> THEN [res |-> "true", placeholders |-> placeholders]
    ELSE IF Head(order) \notin DOMAIN urlParams
         THEN [res |-> "false", placeholders |-> placeholders]
    ELSE IF isPlaceholder(fromQuery[Head(order)])
         THEN IF Tail(fromQuery[Head(order)]) \in DOMAIN placeholders
              THEN matchParams(fromQuery, urlParams, placeholders, Tail(order))
              ELSE IF urlParams[Head(order)] = <<>>
                   THEN [res |-> "panic", placeholders |-> placeholders]
              ELSE matchParams(fromQuery, urlParams,
                       MapSet(placeholders, Tail(fromQuery[Head(order)]),
                              urlParams[Head(order)][1]),
                       Tail(order))
    ELSE IF ~contains(urlParams[Head(order)], fromQuery[Head(order)])
         THEN [res |-> "false", placeholders |-> placeholders]
    ELSE matchParams(fromQuery, urlParams, placeholders, Tail(order))

\* replacePlaceholders, the placeholders being visited in `order`.
RECURSIVE replacePlaceholders(_, _, _)
replacePlaceholders(to, placeholders, order) ==
    IF order = <<>> THEN to
    ELSE replacePlaceholders(ReplaceAll(to, <<":">> \o Head(order), placeholders[Head(order)]),
                             placeholders, Tail(order))

Splat == <<"s", "p", "l", "a", "t">>

\* An expansion that would not look for a placeholder left.
ExpandedUnchecked(rule, toPath) == [rule |-> [rule EXCEPT !.To = toPath], ok |-> "true"]

\* An expansion that would store toPath before looking for a placeholder left.
ExpandedEarly(rule, toPath) ==
    [rule |-> [rule EXCEPT !.To = toPath],
     ok |-> IF Contains(toPath, <<":">>) THEN "false" ELSE "true"]

\* MatchAndExpandPlaceholders from `toPath = replacePlaceholders(...)` on.
Expanded(rule, toPath) ==
    IF Contains(toPath, <<":">>) THEN [rule |-> rule, ok |-> "false"]
    ELSE [rule |-> [rule EXCEPT !.To = toPath], ok |-> "true"]

\* MatchAndExpandPlaceholders once matchParams answered mp.
AfterParams(rule, mp) ==
    IF mp.res = "panic" THEN {[rule |-> rule, ok |-> "panic"]}
    ELSE IF mp.res = "false" THEN {[rule |-> rule, ok |-> "false"]}
    ELSE {Expanded(rule, replacePlaceholders(rule.To, mp.placeholders, o)) :
             o \in Orders(DOMAIN mp.placeholders)}

\* MatchAndExpandPlaceholders once fromPath.Match(urlPath) answered match.
AfterMatch(rule, urlParams, match) ==
    IF ~match.ok THEN {[rule |-> rule, ok |-> "false"]}
    ELSE UNION {AfterParams(rule,
                    matchParams(rule.FromQuery, urlParams,
                                MapSet(match.Params, Splat, match.Trailing), qo)) :
                   qo \in Orders(DOMAIN rule.FromQuery)}

\* What one call of rule.MatchAndExpandPlaceholders(urlPath, urlParams) may give:
\* the rule after the call and the answer.
MatchResults(rule, urlPath, urlParams) ==
    AfterMatch(rule, urlParams,
               PathMatch(PathNew(TrimSuffix(rule.From, <<"/">>)), urlPath))

---------------------------------------------------------------------------
(* The rules and the requests the matcher is run on.                       *)

\* Lines of a _redirects file; the matcher is given the rules Parse emits.
MatchLines ==
    { Join(<<(<<"/", "a", "/", "*">>), UrlSplat, (<<"2", "0", "0">>)>>),  \* /a/* http://h/:splat 200
      <<"/", "*", " ", "/", "b", "/", ":", "s", "p", "l", "a", "t">>,     \* /* /b/:splat
      <<"/", ":", "v", "/", ":", "v", " ", "/", ":", "v">>,               \* /:v/:v /:v
      <<"/", "a", " ", "k", "=", ":", "v", " ", "x", "=", ":", "v",
        " ", "/", ":", "v">>,                                             \* /a k=:v x=:v /:v
      <<"/", ":", "v", " ", "k", "=", ":", "v", " ", "/", ":", "v">>,     \* /:v k=:v /:v
      <<"/", "*", " ", "k", "=", ":", "s", "p", "l", "a", "t", " ",
        "/", ":", "s", "p", "l", "a", "t">>,                              \* /* k=:splat /:splat
      <<"/", "a", " ", "k", "=", "b", " ", "/", "b">>,                    \* /a k=b /b
      <<"/", "b", " ", "k", "=", ":", "v", " ", "/", ":", "v">>,          \* /b k=:v /:v
      <<"/", ":", "t", " ", "/", ":", "v">>,                              \* /:t /:v
      <<"/", ":", "v", "/", ":", "v", "x", " ", "/", ":", "v", "x">>,     \* /:v/:vx /:vx
      <<"/", "a", "/", " ", "/", "b", " ", "3", "0", "2">> }              \* /a/ /b 302

MatchRules ==
    {ParseLine(l).rule : l \in {m \in MatchLines : ParseLine(m).kind = "rule"}}

UrlPaths ==
    { <<"/", "a">>, <<"/", "b">>, <<"/", "a", "/", "b">>, <<"/", "a", "/">> }

\* url.Values: the values of each key of the query, in their order.
UrlParams ==
    { NilMap,
      [k \in {<<"k">>} |-> <<(<<"b">>)>>],
      [k \in {<<"k">>} |-> <<>>],
      [k \in {<<"k">>} |-> <<(<<"c">>), (<<"b">>)>>],
      [k \in {<<"k">>, <<"x">>} |-> IF k = <<"k">> THEN <<(<<"b">>)>> ELSE <<(<<"c">>)>>],
      [k \in {<<"k">>, <<"x">>} |-> IF k = <<"k">> THEN <<>> ELSE <<(<<"c">>)>>] }

---------------------------------------------------------------------------
(* The state and the operations.                                           *)

NoRule == [From |-> <<>>, FromQuery |-> NilMap, To |-> <<>>, Status |-> 0]

\* The arguments of the last call of the matcher, and the rule it was called on.
NoCall == [urlPath |-> <<>>, urlParams |-> NilMap, rule |-> NoRule]

Init ==
    /\ reader = NewReader(<<>>, 0)
    /\ rules = <<>>
    /\ err = "nil"
    /\ outcome = "none"
    /\ r = NoRule
    /\ ok = "none"
    /\ call = NoCall

\* func Parse(r io.Reader) (rules []Rule, err error).  Parse reads nothing but
\* its argument, so one call in a behaviour reaches every result it has.
Parse(rd) ==
    LET res == ParseReader(rd)
    IN  /\ outcome = "none"
        /\ reader' = rd
        /\ rules' = res.rules
        /\ err' = res.err
        /\ outcome' = res.outcome
        /\ UNCHANGED matchVars

\* func ParseString(s string) ([]Rule, error)
ParseString(s) == Parse(s)

Next ==
    \/ \E s \in Strings : ParseString(s)
    \/ \E rd \in FailingReaders : Parse(rd)

Spec == Init /\ [][Next]_vars

\* The matcher on its own: a rule as Parse emits it, matched against requests.
InitMatch ==
    /\ reader = NewReader(<<>>, 0)
    /\ rules = <<>>
    /\ err = "nil"
    /\ outcome = "none"
    /\ r \in MatchRules
    /\ ok = "none"
    /\ call = NoCall

\* func (r *Rule) MatchAndExpandPlaceholders(urlPath string, urlParams url.Values) bool.
\* A panic ends the program.
MatchAndExpandPlaceholders(urlPath, urlParams) ==
    /\ ok # "panic"
    /\ \E res \in MatchResults(r, urlPath, urlParams) :
           /\ r' = res.rule
           /\ ok' = res.ok
    /\ call' = [urlPath |-> urlPath, urlParams |-> urlParams, rule |-> r]
    /\ UNCHANGED parseVars

NextMatch ==
    \E urlPath \in UrlPaths, urlParams \in UrlParams :
        MatchAndExpandPlaceholders(urlPath, urlParams)

SpecMatch == InitMatch /\ [][NextMatch]_vars

---------------------------------------------------------------------------
(* What the properties say of an input, read off the input itself.         *)

Succeeded == outcome = "returned" /\ err = "nil"

Failed == outcome = "returned" /\ err # "nil"

\* A blank line or a comment.
IsIgnored(text) == TrimSpace(text) = <<>> \/ HasPrefix(TrimSpace(text), <<"#">>)

KeepsLine(text) == ~IsIgnored(text)

\* The lines of the input that state a rule, in their order.
RuleLines == SelectSeq(reader.lines, KeepsLine)

LastField(text) == Fields(text)[Len(Fields(text))]

\* 1 to 3 decimal digits.
IsStatusToken(f) == Len(f) \in 1..3 /\ \A i \in 1..Len(f) : f[i] \in Digits

\* A status token followed by '!'.
IsForcedToken(f) ==
    Len(f) >= 2 /\ f[Len(f)] = "!" /\ IsStatusToken(SubSeq(f, 1, Len(f) - 1))

SizeError == "redirects file size cannot exceed"

---------------------------------------------------------------------------
(* Properties of Parse, under Spec.                                        *)

\* C1: whenever Parse returns an error it returns no rules, whatever the
\* failure and however many lines were accepted before it.
C1_ErrorMeansNoRules == Failed => rules = <<>>

\* An error on the second line of an input whose first line gave a rule.
C1_Witness ==
    /\ Failed
    /\ Len(RuleLines) = 2
    /\ ParseLine(RuleLines[1]).kind = "rule"
    /\ ParseLine(RuleLines[2]).kind = "error"
    /\ rules = <<>>

\* C2: Parse is total: on every input it returns rules and no error, or no
\* rules and an error, and never faults.
C2_ParseIsTotal ==
    outcome # "none" =>
        /\ outcome = "returned"
        /\ err # "nil" => rules = <<>>

\* C3: an input of more than MaxFileSizeInBytes bytes whose lines all state
\* valid rules gives the size error and no rules, and an input of at most
\* MaxFileSizeInBytes bytes never gives the size error.
C3_SizeBound ==
    outcome # "none" =>
        /\ ( /\ TotalBytes(reader) > MaxFileSizeInBytes
             /\ \A i \in 1..NumLines(reader) : ParseLine(reader.lines[i]).kind = "rule" )
           => (outcome = "returned" /\ err = SizeError /\ rules = <<>>)
        /\ TotalBytes(reader) <= MaxFileSizeInBytes => err # SizeError

\* C4: a line whose last field is a status token followed by '!' makes Parse
\* return an error; for `/a /a 301!` it is the forced-redirect error and for
\* `/a /a 42` the unsupported-status error.
C4_ForcedRejected ==
    outcome # "none" =>
        /\ (\E i \in 1..Len(RuleLines) : IsForcedToken(LastField(RuleLines[i]))) => Failed
        /\ reader = NewReader(<<Join(<<(<<"/", "a">>), (<<"/", "a">>), (<<"3", "0", "1", "!">>)>>)>>, 0)
           => err = "forced redirects are not supported"
        /\ reader = NewReader(<<Join(<<(<<"/", "a">>), (<<"/", "a">>), (<<"4", "2">>)>>)>>, 0)
           => err = "status code is not supported"

\* C5 as stated: every emitted status is in the fixed set, is 301 exactly when
\* the line's last field is not a status token, and is otherwise the decimal
\* value of that field.
C5_StatusExactly ==
    Succeeded =>
        /\ Len(rules) = Len(RuleLines)
        /\ \A i \in 1..Len(rules) :
              /\ rules[i].Status \in {200, 301, 302, 303, 307, 308, 404, 410, 451}
              /\ rules[i].Status = 301 <=> ~IsStatusToken(LastField(RuleLines[i]))
              /\ IsStatusToken(LastField(RuleLines[i]))
                 => rules[i].Status = AtoiVal(LastField(RuleLines[i]))

\* C5 (amended): every emitted status is in the fixed set; it is 301 when the
\* line's last field is not a status token, and otherwise the decimal value of
\* that field, which may itself be 301.
C5_StatusOfLine ==
    Succeeded =>
        /\ Len(rules) = Len(RuleLines)
        /\ \A i \in 1..Len(rules) :
              /\ rules[i].Status \in {200, 301, 302, 303, 307, 308, 404, 410, 451}
              /\ ~IsStatusToken(LastField(RuleLines[i])) => rules[i].Status = 301
              /\ IsStatusToken(LastField(RuleLines[i]))
                 => rules[i].Status = AtoiVal(LastField(RuleLines[i]))

\* A success with a rule of defaulted status and a rule of stated status.
C5_Witness ==
    /\ Succeeded
    /\ \E i, j \in 1..Len(rules) :
          /\ ~IsStatusToken(LastField(RuleLines[i]))
          /\ IsStatusToken(LastField(RuleLines[j]))
          /\ rules[j].Status # 301

WellFormedFrom(f) ==
    /\ HasPrefix(f, <<"/">>)
    /\ Count(f, "*") <= 1
    /\ Count(f, "*") = 1 => f[Len(f)] = "*"

\* C6: every emitted From starts with '/' and holds at most one '*', at its
\* end; so a line whose first field does not makes Parse fail.
C6_FromWellFormed ==
    Succeeded =>
        /\ \A i \in 1..Len(rules) : WellFormedFrom(rules[i].From)
        /\ \A i \in 1..Len(RuleLines) : WellFormedFrom(Fields(RuleLines[i])[1])

\* A success that emits a rule whose From ends in its one asterisk.
C6_Witness ==
    /\ Succeeded
    /\ \E i \in 1..Len(rules) : Count(rules[i].From, "*") = 1

\* Exactly three fields, the third not matching ^\d{1,3}!?$.
ThreeFieldsNoStatus(text) ==
    /\ ~IsIgnored(text)
    /\ Len(Fields(text)) = 3
    /\ ~(IsStatusToken(Fields(text)[3]) \/ IsForcedToken(Fields(text)[3]))

QueryKey(f) == IF Index(f, <<"=">>) = 0 THEN f ELSE SubSeq(f, 1, Index(f, <<"=">>) - 1)

QueryValue(f) == IF Index(f, <<"=">>) = 0 THEN <<>> ELSE Drop(f, Index(f, <<"=">>))

C8_NoBangThirdField ==
    Succeeded =>
        \A i \in 1..Len(RuleLines) :
            /\ Len(Fields(RuleLines[i])) >= 2
            /\ Len(Fields(RuleLines[i])) >= 3 => ~HasSuffix(Fields(RuleLines[i])[3], <<"!">>)

---------------------------------------------------------------------------
(* Properties of the matcher, under SpecMatch.                             *)

Called == ok # "none"

\* The name that starts at position i of s.
RECURSIVE NameAt(_, _)
NameAt(s, i) ==
    IF i <= Len(s) /\ s[i] \in (Letters \cup Digits)
    THEN <<s[i]>> \o NameAt(s, i + 1) ELSE <<>>

\* The names of the `:name` placeholders of a destination.
PlaceholdersIn(to) ==
    {NameAt(to, i + 1) : i \in {j \in 1..(Len(to) - 1) : to[j] = ":" /\ to[j + 1] \in Letters}}

\* The destination with each `:name` replaced by b[name].
RECURSIVE TokenExpand(_, _)
TokenExpand(to, b) ==
    IF to = <<>> THEN <<>>
    ELSE IF to[1] = ":" /\ Len(to) > 1 /\ to[2] \in Letters
         THEN b[NameAt(to, 2)] \o TokenExpand(Drop(to, 1 + Len(NameAt(to, 2))), b)
    ELSE <<to[1]>> \o TokenExpand(Tail(to), b)

\* What the path of the call binds: the named segments and splat.
CallPathMatch(c) == PathMatch(PathNew(TrimSuffix(c.rule.From, <<"/">>)), c.urlPath)

CallPathBinding(c) == MapSet(CallPathMatch(c).Params, Splat, CallPathMatch(c).Trailing)

\* The values a name may be bound to by the call.
Candidates(c, n) ==
    IF n \in DOMAIN CallPathBinding(c) THEN {CallPathBinding(c)[n]}
    ELSE {c.urlParams[k][1] :
             k \in {x \in DOMAIN c.rule.FromQuery \cap DOMAIN c.urlParams :
                       c.rule.FromQuery[x] = <<":">> \o n /\ c.urlParams[x] # <<>>}}

\* Every FromQuery constraint holds of the query: the key is there, with the
\* stated value or, for a placeholder, with some value.
QuerySatisfied(c) ==
    \A k \in DOMAIN c.rule.FromQuery :
        /\ k \in DOMAIN c.urlParams
        /\ IF HasPrefix(c.rule.FromQuery[k], <<":">>)
           THEN c.urlParams[k] # <<>>
           ELSE \E i \in 1..Len(c.urlParams[k]) : c.urlParams[k][i] = c.rule.FromQuery[k]

Expansions(c) ==
    {TokenExpand(c.rule.To, b) :
        b \in {f \in [PlaceholdersIn(c.rule.To) ->
                        UNION {Candidates(c, n) : n \in PlaceholdersIn(c.rule.To)}] :
                  \A n \in PlaceholdersIn(c.rule.To) : f[n] \in Candidates(c, n)}}

\* C9: when the destination is one Parse accepts, the path matches From, the
\* FromQuery constraints hold and every placeholder of To is bound, the call
\* returns true and To is the template with each placeholder replaced by its
\* bound value.
C9_ExpandsAcceptedDestination ==
    ( /\ Called
      /\ parseTo(call.rule.To).err = "nil"
      /\ CallPathMatch(call).ok
      /\ QuerySatisfied(call)
      /\ \A n \in PlaceholdersIn(call.rule.To) : Candidates(call, n) # {} )
    => (ok = "true" /\ r.To \in Expansions(call))

\* C10: matching never faults: every call returns true or false.
C10_MatchNeverFaults == ok \in {"none", "true", "false"}
\* C11: a call that returns false leaves the rule's From, FromQuery, To and
\* Status as they were before the call.
C11_FailedMatchKeepsRule == ok = "false" => r = call.rule

\* A call that fails on the destination only: the path matches, the query
\* constraints hold, and the substitution gave a string other than To.
C11_Witness ==
    /\ ok = "false"
    /\ CallPathMatch(call).ok
    /\ QuerySatisfied(call)
    /\ \E n \in PlaceholdersIn(call.rule.To) : n \in DOMAIN CallPathBinding(call)
    /\ r = call.rule

\* The placeholder constraints of the rule.
QueryPlaceholderKeys(c) ==
    {k \in DOMAIN c.rule.FromQuery : HasPrefix(c.rule.FromQuery[k], <<":">>)}

\* No name is constrained by two keys of FromQuery.
OneKeyPerName(c) ==
    \A j, k \in QueryPlaceholderKeys(c) :
        c.rule.FromQuery[j] = c.rule.FromQuery[k] => j = k

FromSegments(c) == Split(TrimSuffix(c.rule.From, <<"/">>), "/")

UrlSegments(c) == Split(c.urlPath, "/")

\* The positions of the segments of From that are `:n`.
SegmentsNamed(c, n) ==
    {i \in 1..Len(FromSegments(c)) : FromSegments(c)[i] = <<":">> \o n}

\* The names that two segments of From carry.
RepeatedNames(c) ==
    {n \in PlaceholdersIn(c.rule.From) : Cardinality(SegmentsNamed(c, n)) > 1}

Leftmost(S) == CHOOSE i \in S : \A j \in S : i <= j

Rightmost(S) == CHOOSE i \in S : \A j \in S : i >= j

\* A match of a rule with a repeated name, every placeholder of To being
\* a name of From's segments.
RepeatedNameMatched ==
    /\ ok = "true"
    /\ RepeatedNames(call) # {}
    /\ \A n \in PlaceholdersIn(call.rule.To) : SegmentsNamed(call, n) # {}

\* C13 as stated: a name carried by two segments of From resolves to what the
\* leftmost of them captured.
C13_LeftmostSegmentWins ==
    RepeatedNameMatched =>
        r.To = TokenExpand(call.rule.To,
                   [n \in PlaceholdersIn(call.rule.To) |->
                       UrlSegments(call)[Leftmost(SegmentsNamed(call, n))]])

\* C13 (amended): a name carried by two segments of From resolves to what the
\* rightmost of them captured: each later segment binds the name again.
C13_RightmostSegmentWins ==
    RepeatedNameMatched =>
        r.To = TokenExpand(call.rule.To,
                   [n \in PlaceholdersIn(call.rule.To) |->
                       UrlSegments(call)[Rightmost(SegmentsNamed(call, n))]])

\* A match where the two segments of one name captured different values.
C13_Witness ==
    /\ RepeatedNameMatched
    /\ \E n \in RepeatedNames(call) \cap PlaceholdersIn(call.rule.To) :
          UrlSegments(call)[Leftmost(SegmentsNamed(call, n))]
              # UrlSegments(call)[Rightmost(SegmentsNamed(call, n))]
    /\ r.To # call.rule.To

\* C14: the outcome of a call is determined by the rule, the path and the
\* query: whatever the order in which the constraints are visited and the
\* names substituted, the answer and the resulting To are those the call gave.
C14_Deterministic ==
    Called =>
        \A res \in MatchResults(call.rule, call.urlPath, call.urlParams) :
            res.ok = ok /\ res.rule.To = r.To

\* C16: once a call has returned true the rule's To holds no ':', and no later
\* call, whatever it is given and whatever it returns, changes To: a To
\* without ':' stays as it is, and To changes only in a call that returns true
\* and leaves it without ':', so at most once.
C16_SpecializedForGood ==
    /\ [](ok = "true" => ~Contains(r.To, <<":">>))
    /\ [][~Contains(r.To, <<":">>) => r'.To = r.To]_vars
    /\ [][r'.To # r.To => (ok' = "true" /\ ~Contains(r'.To, <<":">>))]_vars

\* A later call, returning true, on a rule that an earlier call has expanded.
C16_Witness ==
    /\ ok = "true"
    /\ call.rule \notin MatchRules
    /\ ~Contains(call.rule.To, <<":">>)
    /\ PlaceholdersIn(call.rule.From) # {}
    /\ r.To = call.rule.To

---------------------------------------------------------------------------
(* The correspondence of lines and rules, under Spec.                      *)

\* The place of the destination among the fields of a line, counted from 1:
\* the last field, or the one before it when the last is a status token.
DestinationField(fs) == IF IsStatusToken(fs[Len(fs)]) THEN Len(fs) - 1 ELSE Len(fs)

\* C15: a successful Parse emits one rule for each line that is neither blank
\* nor a comment, in order; the rule's From is the line's first field and its
\* To a later field of the line, the last one or the one before a status token.
C15_LineToRule ==
    Succeeded =>
        /\ Len(rules) = Len(RuleLines)
        /\ \A i \in 1..Len(RuleLines) :
              /\ rules[i].From = Fields(RuleLines[i])[1]
              /\ DestinationField(Fields(RuleLines[i])) >= 2
              /\ rules[i].To = Fields(RuleLines[i])[DestinationField(Fields(RuleLines[i]))]

=============================================================================
